---- MODULE Spec2Model ----
(***************************************************************************)
(* RepoReport (repo_report.js): runs `git log --numstat` through            *)
(* git-wrapper, parses the text into commit records and accumulates the    *)
(* additions per filetype.                                                 *)
(*                                                                         *)
(* Text is a sequence of one-character strings, so that every split(),     *)
(* replace() and parseInt() of the source works on characters as it does   *)
(* in JavaScript.  The JavaScript values null and undefined are the        *)
(* one-element sequences Null and Undefined, whose element is longer than  *)
(* one character and so differs from every text.                           *)
(***************************************************************************)
EXTENDS Integers, Sequences, FiniteSets, TLC

VARIABLES
  results,        \* this.results
  commitCount,    \* this.commitCount
  filetypeCounts, \* this.filetypeCounts: function from the keys present to the total
  thrown,         \* what the last call of parseResults threw, Null when it returned
  err,            \* first argument of the last git.exec callback
  msg,            \* second argument of the last (or, in SpecParse, the pending) git.exec callback
  history,        \* the commit blocks the producer rendered into msg
  trailingBlank,  \* TRUE when the producer ended every block with one more blank line
  runs,           \* calls of run() so far
  inFlight,       \* git.exec calls whose callback has not fired yet
  done,           \* git.exec callbacks fired so far
  called,         \* invocations of the completion callback so far
  callbackArgs,   \* arguments of the last invocation of the completion callback
  seen            \* the report as the completion callback found it when last invoked

vars == <<results, commitCount, filetypeCounts, thrown, err, msg, history,
          trailingBlank, runs, inFlight, done, called, callbackArgs, seen>>

\* ------------------------------------------------------------------ bounds
MaxRuns == 3
MaxCommits == 2
MaxFiles == 2

\* ------------------------------------------------------- JavaScript values
Null == <<"null">>
Undefined == <<"undefined">>
TypeError == <<"TypeError">>
NoErr == Null
ExecError == <<"Error">>

NL == <<"\n">>
TAB == <<"\t">>
SPACE == <<" ">>
DOT == <<".">>
delimiter == <<"-", "-", "-">>
InvalidTitlePrefix == <<"I", "n", "v", "a", "l", "i", "d", " ", "t", "i", "t", "l", "e", ":", " ">>

Digits == {"0", "1", "2", "3", "4", "5", "6", "7", "8", "9"}

DigitVal(c) ==
  CASE c = "0" -> 0 [] c = "1" -> 1 [] c = "2" -> 2 [] c = "3" -> 3 [] c = "4" -> 4
    [] c = "5" -> 5 [] c = "6" -> 6 [] c = "7" -> 7 [] c = "8" -> 8 [] c = "9" -> 9

\* String.prototype.indexOf, 1-based; 0 when sep does not occur in s
IndexOf(s, sep) ==
  LET hits == {i \in 1..(Len(s) - Len(sep) + 1) : SubSeq(s, i, i + Len(sep) - 1) = sep}
  IN IF hits = {} THEN 0 ELSE CHOOSE i \in hits : \A j \in hits : i <= j

\* String.prototype.split with a non-empty separator
RECURSIVE Split(_, _)
Split(s, sep) ==
  LET i == IndexOf(s, sep)
  IN IF i = 0 THEN <<s>>
     ELSE <<SubSeq(s, 1, i - 1)>> \o Split(SubSeq(s, i + Len(sep), Len(s)), sep)

\* Array.prototype.shift: the remaining array (an empty array stays empty)
Shift(a) == IF a = <<>> THEN <<>> ELSE Tail(a)

\* Array.prototype.pop: the remaining array (an empty array stays empty)
Pop(a) == IF a = <<>> THEN <<>> ELSE SubSeq(a, 1, Len(a) - 1)

\* .replace(/\D/g, '')
StripNonDigits(s) == SelectSeq(s, LAMBDA c : c \in Digits)

\* parseInt of a string of decimal digits
RECURSIVE ParseInt(_)
ParseInt(s) ==
  IF s = <<>> THEN 0
  ELSE 10 * ParseInt(SubSeq(s, 1, Len(s) - 1)) + DigitVal(s[Len(s)])

\* ------------------------------------------------------------ the parser
\* getFiletype without the test of the piece before the first '.'
getFiletypeNoDotfileTest(filename) ==
  LET pieces == Split(filename, DOT)
  IN IF Len(pieces) <= 1 THEN Null
     ELSE pieces[Len(pieces)]

getFiletype(filename) ==
  LET pieces == Split(filename, DOT)
  IN IF Len(pieces) <= 1 THEN Null
     ELSE IF Len(pieces[1]) = 0 THEN Null
     ELSE pieces[Len(pieces)]

\* appendToFiletypeCounts adding the deletions of the file change
appendToFiletypeCountsDeletions(counts, fileStats) ==
  LET filetype == fileStats.filetype
  IN IF filetype = Null \/ filetype = <<>> THEN counts
     ELSE LET c0 == IF filetype \notin DOMAIN counts \/ counts[filetype] = 0
                    THEN (filetype :> 0) @@ counts
                    ELSE counts
          IN [c0 EXCEPT ![filetype] = @ + fileStats.deletions]

appendToFiletypeCounts(counts, fileStats) ==
  LET filetype == fileStats.filetype
  IN IF filetype = Null \/ filetype = <<>> THEN counts
     ELSE LET c0 == IF filetype \notin DOMAIN counts \/ counts[filetype] = 0
                    THEN (filetype :> 0) @@ counts
                    ELSE counts
          IN [c0 EXCEPT ![filetype] = @ + fileStats.additions]

\* parseCommitFile reading the deletions from the first field and the
\* additions from the second
parseCommitFileSwapped(line, counts) ==
  LET pieces == Split(line, TAB)
  IN IF Len(pieces) < 2
     THEN [thrown |-> TypeError, value |-> Undefined, counts |-> counts]
     ELSE IF Len(pieces) = 2
     THEN [thrown |-> TypeError, value |-> Undefined, counts |-> counts]
     ELSE LET filename == pieces[Len(pieces)]
              stats == [additions |-> ParseInt(<<"0">> \o StripNonDigits(pieces[2])),
                        deletions |-> ParseInt(<<"0">> \o StripNonDigits(pieces[1])),
                        filename |-> filename,
                        filetype |-> getFiletype(filename)]
          IN [thrown |-> Null, value |-> stats,
              counts |-> appendToFiletypeCounts(counts, stats)]

\* parseCommitFile: [thrown, value, counts]
parseCommitFile(line, counts) ==
  LET pieces == Split(line, TAB)
  IN IF Len(pieces) < 2
     THEN \* the second pieces.shift() is undefined: undefined.replace throws
          [thrown |-> TypeError, value |-> Undefined, counts |-> counts]
     ELSE IF Len(pieces) = 2
     THEN \* pieces.pop() is undefined: getFiletype(undefined) throws at .split
          [thrown |-> TypeError, value |-> Undefined, counts |-> counts]
     ELSE LET filename == pieces[Len(pieces)]
              stats == [additions |-> ParseInt(<<"0">> \o StripNonDigits(pieces[1])),
                        deletions |-> ParseInt(<<"0">> \o StripNonDigits(pieces[2])),
                        filename |-> filename,
                        filetype |-> getFiletype(filename)]
          IN [thrown |-> Null, value |-> stats,
              counts |-> appendToFiletypeCounts(counts, stats)]

\* parseCommitTitle: [thrown, value]
parseCommitTitle(title) ==
  LET pieces == Split(title, SPACE)
  IN IF Len(pieces) # 2
     THEN [thrown |-> InvalidTitlePrefix \o title, value |-> Undefined]
     ELSE [thrown |-> Null, value |-> [hash |-> pieces[1], date |-> pieces[2]]]

\* var v = e; ... v ...: written The({... v ... : v \in {e}}), so that e is
\* computed once and named v in what follows
The(S) == CHOOSE x \in S : TRUE

\* lines.map(parseCommitFile): [thrown, files, counts]; stops at the first throw
RECURSIVE MapCommitFile(_, _)
MapCommitFile(lines, counts) ==
  IF lines = <<>> THEN [thrown |-> Null, files |-> <<>>, counts |-> counts]
  ELSE The({
         IF f.thrown # Null
         THEN [thrown |-> f.thrown, files |-> <<>>, counts |-> f.counts]
         ELSE The({[thrown |-> rest.thrown,
                    files |-> <<f.value>> \o rest.files,
                    counts |-> rest.counts]
                   : rest \in {MapCommitFile(Tail(lines), f.counts)}})
         : f \in {parseCommitFile(Head(lines), counts)}})

\* parseCommit: [thrown, entry, commitCount, counts]
parseCommit(commit, count, counts) ==
  The({The({
         IF entry.thrown # Null
         THEN [thrown |-> entry.thrown, entry |-> Undefined,
               commitCount |-> count + 1, counts |-> counts]
         ELSE \* lines.shift() took the title; lines.shift(); lines.pop();
              The({[thrown |-> m.thrown,
                    entry |-> [hash |-> entry.value.hash, date |-> entry.value.date,
                               files |-> m.files],
                    commitCount |-> count + 1, counts |-> m.counts]
                   : m \in {MapCommitFile(Pop(Shift(Shift(lines))), counts)}})
         : entry \in {parseCommitTitle(Head(lines))}})
       : lines \in {Split(commit, NL)}})

\* commits.map(parseCommit): [thrown, entries, commitCount, counts]
RECURSIVE MapCommit(_, _, _)
MapCommit(commits, count, counts) ==
  IF commits = <<>>
  THEN [thrown |-> Null, entries |-> <<>>, commitCount |-> count, counts |-> counts]
  ELSE The({
         IF c.thrown # Null
         THEN [thrown |-> c.thrown, entries |-> <<>>,
               commitCount |-> c.commitCount, counts |-> c.counts]
         ELSE The({[thrown |-> rest.thrown,
                    entries |-> <<c.entry>> \o rest.entries,
                    commitCount |-> rest.commitCount, counts |-> rest.counts]
                   : rest \in {MapCommit(Tail(commits), c.commitCount, c.counts)}})
         : c \in {parseCommit(Head(commits), count, counts)}})

\* parseResults without commits.shift()
DropFirstKept(commits) == commits

\* commits.shift() of parseResults: the first segment is dropped
DropFirst(commits) == Shift(commits)

\* parseResults(err, msg) on a report: [thrown, report]
parseResults(e, m, report) ==
  The({[thrown |-> r.thrown,
        report |-> [results |-> IF r.thrown = Null THEN r.entries ELSE report.results,
                    commitCount |-> r.commitCount,
                    filetypeCounts |-> r.counts]]
       : r \in {MapCommit(DropFirst(Split(m, delimiter)), report.commitCount,
                          report.filetypeCounts)}})

\* ---------------------------------------------------------- the producer
\* git log --pretty=tformat:"---%h %ad" --numstat --date=short: the commit title
Title(hash, date) == hash \o SPACE \o date

\* one --numstat line
StatLine(additions, deletions, filename) ==
  additions \o TAB \o deletions \o TAB \o filename

Title1 == Title(<<"8", "8", "a", "3", "f", "9", "8">>, <<"2", "0", "1", "4", "-", "0", "4", "-", "3", "0">>)
Title2 == Title(<<"a", "a", "1", "1", "b", "b", "2">>, <<"2", "0", "1", "4", "-", "0", "5", "-", "0", "1">>)
BadTitle == <<"b", "a", "d", "h", "e", "a", "d", "e", "r">>
LongTitle == Title(<<"8", "8", "a", "3", "f", "9", "8">>, <<"2", "0", "1", "4", "-", "0", "4", "-", "3", "0">>) \o SPACE \o <<"x">>

ReadmeLine == StatLine(<<"3">>, <<"3">>, <<"R", "E", "A", "D", "M", "E", ".", "m", "d">>)
AliasesLine == StatLine(<<"0">>, <<"2">>, <<"a", "l", "i", "a", "s", "e", "s", ".", "s", "o", "u", "r", "c", "e">>)
VimrcLine == StatLine(<<"0">>, <<"6", "5">>, <<"v", "i", "m", "r", "c">>)
LibLine == StatLine(<<"1", "2">>, <<"4">>, <<"l", "i", "b", ".", "m", "d">>)
ConfigLine == StatLine(<<"6", "5">>, <<"0">>, <<"c", "o", "n", "f", "i", "g", "s", "/", "v", "i", "m", "r", "c">>)
BinaryLine == StatLine(<<"-">>, <<"-">>, <<"b", "i", "n", "a", "r", "y", ".", "p", "n", "g">>)
BashrcLine == StatLine(<<"5">>, <<"1">>, <<".", "b", "a", "s", "h", "r", "c">>)
MultiDotLine == StatLine(<<"7">>, <<"0">>, <<"a", ".", "b", ".", "c">>)
NoExtLine == StatLine(<<"2">>, <<"0">>, <<"n", "o", "t", "e", "s", ".">>)

StatLines == <<ReadmeLine, LibLine, ConfigLine, BinaryLine, BashrcLine,
               MultiDotLine, NoExtLine>>

Titles == {Title1, Title2, BadTitle}

\* up to n consecutive lines of StatLines, starting at line s and wrapping around
Window(s, n) == [i \in 1..n |-> StatLines[((s + i - 2) % Len(StatLines)) + 1]]

Blocks ==
  {[title |-> t, lines |-> Window(s, n)] :
     t \in Titles, s \in 1..Len(StatLines), n \in 0..MaxFiles}

RECURSIVE Concat(_)
Concat(ss) == IF ss = <<>> THEN <<>> ELSE Head(ss) \o Concat(Tail(ss))

\* One commit block as git prints it: the title line, and when the commit
\* changed files a blank line and one line per file.  With blank, one more
\* blank line ends the block.
RenderBlock(b, blank) ==
  delimiter \o b.title \o NL
    \o (IF b.lines = <<>> THEN <<>>
        ELSE NL \o Concat([i \in 1..Len(b.lines) |-> b.lines[i] \o NL]))
    \o (IF blank THEN NL ELSE <<>>)

Render(h, blank) == Concat([i \in 1..Len(h) |-> RenderBlock(h[i], blank)])

Histories == UNION {[1..k -> Blocks] : k \in 0..MaxCommits}

EndToEndHistory ==
  <<[title |-> Title1, lines |-> <<ReadmeLine, AliasesLine>>],
    [title |-> Title2, lines |-> <<VimrcLine>>]>>

\* the text of the end-to-end scenario, every block ending with a blank line
EndToEndText ==
  <<"-", "-", "-", "8", "8", "a", "3", "f", "9", "8", " ", "2", "0", "1", "4", "-", "0", "4", "-", "3", "0", "\n", "\n", "3", "\t", "3", "\t", "R", "E", "A", "D", "M", "E", ".", "m", "d", "\n", "0", "\t", "2", "\t", "a", "l", "i", "a", "s", "e", "s", ".", "s", "o", "u", "r", "c", "e", "\n", "\n", "-", "-", "-", "a", "a", "1", "1", "b", "b", "2", " ", "2", "0", "1", "4", "-", "0", "5", "-", "0", "1", "\n", "\n", "0", "\t", "6", "5", "\t", "v", "i", "m", "r", "c", "\n", "\n">>

\* what the git.exec callback of run() may be handed
RunHistories ==
  {<<>>,
   EndToEndHistory,
   <<[title |-> Title1, lines |-> <<ReadmeLine>>]>>,
   <<[title |-> Title2, lines |-> <<BinaryLine, NoExtLine>>]>>,
   <<[title |-> BadTitle, lines |-> <<>>]>>,
   <<[title |-> Title1, lines |-> <<LibLine>>], [title |-> BadTitle, lines |-> <<ReadmeLine>>]>>,
   <<[title |-> LongTitle, lines |-> <<ReadmeLine>>], [title |-> Title2, lines |-> <<>>]>>}

RunInputs ==
  {[history |-> h, blank |-> FALSE] : h \in RunHistories}
    \cup {[history |-> EndToEndHistory, blank |-> TRUE]}

ParseInputs ==
  {[history |-> h, blank |-> FALSE] : h \in Histories} \cup RunInputs

Errs == {NoErr, ExecError}

\* ------------------------------------------------------------ the state
Report == [results |-> results, commitCount |-> commitCount,
           filetypeCounts |-> filetypeCounts]

FreshReport == [results |-> <<>>, commitCount |-> 0, filetypeCounts |-> <<>>]

\* callback(_this) placed before parseResults(err, msg)
CallbackViewBefore(before, after) == before

\* the callback runs after parseResults has returned: it finds the report as
\* parseResults left it
CallbackView(before, after) == after

Init ==
  /\ results = <<>>
  /\ commitCount = 0
  /\ filetypeCounts = <<>>
  /\ thrown = Null
  /\ err = NoErr
  /\ msg = <<>>
  /\ history = <<>>
  /\ trailingBlank = FALSE
  /\ runs = 0
  /\ inFlight = 0
  /\ done = 0
  /\ called = 0
  /\ callbackArgs = <<>>
  /\ seen = FreshReport

\* report.run(callback): sets the options and starts git.exec
Run ==
  /\ runs < MaxRuns
  /\ runs' = runs + 1
  /\ inFlight' = inFlight + 1
  /\ UNCHANGED <<results, commitCount, filetypeCounts, thrown, err, msg, history,
                 trailingBlank, done, called, callbackArgs, seen>>

\* function (err, msg) { parseResults(err, msg); callback(_this); }
Deliver(e, in) ==
  /\ inFlight > 0
  /\ inFlight' = inFlight - 1
  /\ done' = done + 1
  /\ err' = e
  /\ msg' = Render(in.history, in.blank)
  /\ history' = in.history
  /\ trailingBlank' = in.blank
  /\ \E r \in {parseResults(e, Render(in.history, in.blank), Report)} :
       /\ results' = r.report.results
       /\ commitCount' = r.report.commitCount
       /\ filetypeCounts' = r.report.filetypeCounts
       /\ thrown' = r.thrown
       /\ IF r.thrown = Null
          THEN /\ called' = called + 1
               /\ callbackArgs' = <<"_this">>
               /\ seen' = CallbackView(Report, r.report)
          ELSE UNCHANGED <<called, callbackArgs, seen>>
  /\ UNCHANGED runs

ExecCallback == \E e \in Errs, in \in RunInputs : Deliver(e, in)

Next == Run \/ ExecCallback

Spec == Init /\ [][Next]_vars

\* One run on a fresh report, against a repository whose log is already fixed.
InitParse ==
  /\ results = <<>>
  /\ commitCount = 0
  /\ filetypeCounts = <<>>
  /\ thrown = Null
  /\ err = NoErr
  /\ \E in \in ParseInputs :
       /\ history = in.history
       /\ trailingBlank = in.blank
       /\ msg = Render(in.history, in.blank)
  /\ runs = 1
  /\ inFlight = 1
  /\ done = 0
  /\ called = 0
  /\ callbackArgs = <<>>
  /\ seen = FreshReport

ExecCallbackOfLog == Deliver(NoErr, [history |-> history, blank |-> trailingBlank])

NextParse == ExecCallbackOfLog

SpecParse == InitParse /\ [][NextParse]_vars

\* ------------------------------------------------------------ properties
\* helpers of the properties, written without the parser's operators
SpaceCount(t) == Cardinality({i \in 1..Len(t) : t[i] = " "})

WellFormedTitle(t) ==
  /\ SpaceCount(t) = 1
  /\ t[1] # " "
  /\ t[Len(t)] # " "

WellFormedHistory(h) == \A i \in 1..Len(h) : WellFormedTitle(h[i].title)

AllFiles(rs) == Concat([i \in 1..Len(rs) |-> rs[i].files])

RECURSIVE SumAdditions(_, _)
SumAdditions(fs, t) ==
  IF fs = <<>> THEN 0
  ELSE (IF Head(fs).filetype = t THEN Head(fs).additions ELSE 0)
         + SumAdditions(Tail(fs), t)

ObservedTypes(rs) ==
  {AllFiles(rs)[i].filetype : i \in 1..Len(AllFiles(rs))} \ {Null}

ParsedEveryBlock ==
  /\ thrown = Null
  /\ Len(results) = Len(history)
  /\ commitCount = Len(history)
  /\ \A i \in 1..Len(history) :
       results[i].hash \o SPACE \o results[i].date = history[i].title

\* C1 (as stated): whichever of the two block endings the producer uses, a
\* text of K well-formed commit blocks parsed on a fresh report leaves K
\* records in results, record i with the hash and date of block i, and
\* commitCount = K.
C1_AnyBlockEnding ==
  (done = 1 /\ WellFormedHistory(history)) => ParsedEveryBlock

\* C1 (amended): a text of K well-formed commit blocks, each ending with the
\* newline of its last line and no further blank line, parsed on a fresh
\* report leaves K records in results, record i with the hash and date of
\* block i, and commitCount = K.
C1_ParsesEveryBlock ==
  (done = 1 /\ WellFormedHistory(history) /\ ~trailingBlank) => ParsedEveryBlock

C1_Witness ==
  /\ done = 1
  /\ ~trailingBlank
  /\ WellFormedHistory(history)
  /\ Len(history) = 2
  /\ history[1].title # history[2].title
  /\ Len(results) = 2
  /\ commitCount = 2

\* C2: whenever a run completes after a sequence of completed runs (no run
\* threw), the report the completion callback finds has commitCount equal to
\* the length of results.
C2_CountIsLength ==
  (called > 0 /\ called = done) => seen.commitCount = Len(seen.results)

\* C3: after a completed run on a fresh report, filetypeCounts has a key for
\* exactly the non-null filetypes of the parsed file changes, and the entry
\* of each is the sum of the additions of the file changes of that filetype.
C3_CountsAreSums ==
  (done = 1 /\ thrown = Null) =>
    /\ DOMAIN filetypeCounts = ObservedTypes(results)
    /\ \A t \in DOMAIN filetypeCounts :
         filetypeCounts[t] = SumAdditions(AllFiles(results), t)

\* C4: when the second parse on a report is given the text of the first and
\* both complete, results, commitCount and filetypeCounts are after the
\* second parse what they were after the first.
C4_ReparseIsIdentical ==
  [][(done = 1 /\ done' = 2 /\ msg' = msg /\ thrown = Null /\ thrown' = Null)
       => (results' = results /\ commitCount' = commitCount
             /\ filetypeCounts' = filetypeCounts)]_vars

\* C5: when some block of the text has a title that is not two tokens, the
\* parse throws an error naming that title and results, commitCount and
\* filetypeCounts are what they were before the run.
C5_MalformedTitleLeavesReport ==
  [][(done' = done + 1 /\ ~WellFormedHistory(history'))
       => /\ \E i \in 1..Len(history') :
               thrown' = InvalidTitlePrefix \o history'[i].title
          /\ results' = results
          /\ commitCount' = commitCount
          /\ filetypeCounts' = filetypeCounts]_vars

\* C6: when git.exec calls back with an error, the completion callback is
\* invoked with something other than the bare report (a failure indicator)
\* and results, commitCount and filetypeCounts are left as they were.
C6_QueryFailureShortCircuits ==
  [][(done' = done + 1 /\ err' # NoErr)
       => /\ called' = called + 1
          /\ \E i \in 1..Len(callbackArgs') : callbackArgs'[i] # "_this"
          /\ results' = results
          /\ commitCount' = commitCount
          /\ filetypeCounts' = filetypeCounts]_vars

HasDot(f) == \E i \in 1..Len(f) : f[i] = "."

LastDot(f) ==
  CHOOSE i \in 1..Len(f) : f[i] = "." /\ \A j \in (i + 1)..Len(f) : f[j] # "."

\* the classification as the claim words it
Classified(f) ==
  IF ~HasDot(f) \/ f[1] = "." THEN Null
  ELSE SubSeq(f, LastDot(f) + 1, Len(f))

\* C7: the filetype of every parsed file change is null when its filename
\* has no '.' or starts with '.', and otherwise what follows the last '.';
\* "vimrc" and ".bashrc" give null, "a.b.c" gives "c", "README.md" gives "md".
C7_Classification ==
  /\ \A i \in 1..Len(AllFiles(results)) :
       AllFiles(results)[i].filetype = Classified(AllFiles(results)[i].filename)
  /\ getFiletype(<<"v", "i", "m", "r", "c">>) = Null
  /\ getFiletype(<<".", "b", "a", "s", "h", "r", "c">>) = Null
  /\ getFiletype(<<"a", ".", "b", ".", "c">>) = <<"c">>
  /\ getFiletype(<<"R", "E", "A", "D", "M", "E", ".", "m", "d">>) = <<"m", "d">>

C7_Witness ==
  /\ done = 1
  /\ \E i \in 1..Len(AllFiles(results)) :
       /\ AllFiles(results)[i].filename = <<".", "b", "a", "s", "h", "r", "c">>
       /\ AllFiles(results)[i].filetype = Null
  /\ \E i \in 1..Len(AllFiles(results)) :
       /\ AllFiles(results)[i].filename = <<"a", ".", "b", ".", "c">>
       /\ AllFiles(results)[i].filetype = <<"c">>
  /\ \E i \in 1..Len(AllFiles(results)) :
       /\ AllFiles(results)[i].filename = <<"c", "o", "n", "f", "i", "g", "s", "/", "v", "i", "m", "r", "c">>
       /\ AllFiles(results)[i].filetype = Null

\* the text of the end-to-end scenario as git prints it: no blank line
\* between the last stat line of a block and the next delimiter
EndToEndGitText ==
  <<"-", "-", "-", "8", "8", "a", "3", "f", "9", "8", " ", "2", "0", "1", "4", "-", "0", "4", "-", "3", "0", "\n", "\n", "3", "\t", "3", "\t", "R", "E", "A", "D", "M", "E", ".", "m", "d", "\n", "0", "\t", "2", "\t", "a", "l", "i", "a", "s", "e", "s", ".", "s", "o", "u", "r", "c", "e", "\n", "-", "-", "-", "a", "a", "1", "1", "b", "b", "2", " ", "2", "0", "1", "4", "-", "0", "5", "-", "0", "1", "\n", "\n", "0", "\t", "6", "5", "\t", "v", "i", "m", "r", "c", "\n">>

EndToEndOutcome(sourceTotal) ==
  /\ thrown = Null
  /\ called = 1
  /\ commitCount = 2
  /\ Len(results) = 2
  /\ results[1].hash = <<"8", "8", "a", "3", "f", "9", "8">>
  /\ results[1].date = <<"2", "0", "1", "4", "-", "0", "4", "-", "3", "0">>
  /\ Len(results[1].files) = 2
  /\ results[1].files[2].filetype = <<"s", "o", "u", "r", "c", "e">>
  /\ filetypeCounts = (<<"m", "d">> :> 3) @@ (<<"s", "o", "u", "r", "c", "e">> :> sourceTotal)

\* C8 (as stated): parsing the end-to-end text whose blocks end with a blank
\* line completes with commitCount = 2, results[0] = 88a3f98 of 2014-04-30,
\* results[0].files[1].filetype = "source" and filetypeCounts = {md: 3, source: 2}.
C8_EndToEndAsStated ==
  (done = 1 /\ msg = EndToEndText) => EndToEndOutcome(2)

\* C8 (amended): parsing the end-to-end text whose blocks end with the
\* newline of their last stat line completes with commitCount = 2,
\* results[0] = 88a3f98 of 2014-04-30, results[0].files[1].filetype = "source"
\* and filetypeCounts = {md: 3, source: 0}.
C8_EndToEnd ==
  (done = 1 /\ msg = EndToEndGitText) => EndToEndOutcome(0)

C8_Witness ==
  /\ done = 1
  /\ msg = EndToEndGitText
  /\ history = EndToEndHistory
  /\ commitCount = 2
  /\ <<"s", "o", "u", "r", "c", "e">> \in DOMAIN filetypeCounts

\* C9: the completion callback is invoked at most once per run; each
\* invocation is passed the report, happens in the step that parsed the
\* output of the run, and finds results assigned and commitCount and
\* filetypeCounts with every update of that parse applied.
C9_CallbackAfterParse ==
  /\ [](called <= done /\ done <= runs)
  /\ [][called' # called
         => /\ called' = called + 1
            /\ done' = done + 1
            /\ callbackArgs' = <<"_this">>
            /\ thrown' = Null
            /\ seen' = [results |-> results', commitCount |-> commitCount',
                        filetypeCounts |-> filetypeCounts']
            /\ seen'.commitCount = commitCount + Len(seen'.results)
            /\ Len(seen'.results) = Len(history')]_vars

C9_Witness ==
  /\ called = 2
  /\ runs = 2
  /\ Len(seen.results) = 2
  /\ seen.commitCount > 2

Pow10(n) == [k \in 0..4 |-> CASE k = 0 -> 1 [] k = 1 -> 10 [] k = 2 -> 100
                              [] k = 3 -> 1000 [] k = 4 -> 10000][n]

\* the number a numeric field stands for: its digits read as a decimal
\* numeral, 0 when it has none
FieldValue(field) ==
  LET ds == {i \in 1..Len(field) : field[i] \in Digits}
      Weight(i) == Pow10(Cardinality({j \in ds : j > i}))
      RECURSIVE Total(_)
      Total(S) == IF S = {} THEN 0
                  ELSE LET i == CHOOSE x \in S : TRUE
                       IN DigitVal(field[i]) * Weight(i) + Total(S \ {i})
  IN Total(ds)

FirstTab(line) == CHOOSE i \in 1..Len(line) : line[i] = "\t" /\ \A j \in 1..(i - 1) : line[j] # "\t"

FirstField(line) == SubSeq(line, 1, FirstTab(line) - 1)

SecondField(line) ==
  LET rest == SubSeq(line, FirstTab(line) + 1, Len(line))
  IN SubSeq(rest, 1, FirstTab(rest) - 1)

\* C10: additions and deletions of every parsed file change are natural
\* numbers, the decimal value of the digits of the first and of the second
\* field of its stat line and 0 when the field has no digit; the line
\* "-<TAB>-<TAB>binary.png" gives additions = 0 and deletions = 0 and adds 0
\* to filetypeCounts.
C10_NumericFields ==
  /\ \A i \in 1..Len(AllFiles(results)) :
       /\ AllFiles(results)[i].additions \in Nat
       /\ AllFiles(results)[i].deletions \in Nat
       /\ AllFiles(results)[i].filename = <<"b", "i", "n", "a", "r", "y", ".", "p", "n", "g">>
            => /\ AllFiles(results)[i].additions = 0
               /\ AllFiles(results)[i].deletions = 0
  /\ (done = 1 /\ thrown = Null /\ ~trailingBlank) =>
       \A i \in 1..Len(history) : \A j \in 1..Len(history[i].lines) :
         /\ results[i].files[j].additions = FieldValue(FirstField(history[i].lines[j]))
         /\ results[i].files[j].deletions = FieldValue(SecondField(history[i].lines[j]))
  /\ (done = 1 /\ thrown = Null) =>
       (<<"p", "n", "g">> \in DOMAIN filetypeCounts =>
          filetypeCounts[<<"p", "n", "g">>] = 0)

C10_Witness ==
  /\ done = 1
  /\ thrown = Null
  /\ \E i \in 1..Len(AllFiles(results)) :
       /\ AllFiles(results)[i].filename = <<"b", "i", "n", "a", "r", "y", ".", "p", "n", "g">>
       /\ AllFiles(results)[i].additions = 0
       /\ AllFiles(results)[i].deletions = 0
  /\ \E i \in 1..Len(AllFiles(results)) : AllFiles(results)[i].additions = 12
  /\ <<"p", "n", "g">> \in DOMAIN filetypeCounts
  /\ filetypeCounts[<<"p", "n", "g">>] = 0

====
